---- MODULE Spec2Model ----
(***************************************************************************)
(* Model of src/main.rs: the accelerometer/display control loop of the     *)
(* blue-pill firmware.  One action per statement of main() that changes    *)
(* state; every `.unwrap()` is a step with two outcomes (Ok, or Err and    *)
(* the panic_halt handler).  Bus-using driver calls are split in a begin   *)
(* and an end step so that a transaction in flight is a state.             *)
(*                                                                         *)
(* Numbers.  f32 values are kept exactly, as integers in units of          *)
(* 2^-FRAC; every value the model computes is a dyadic rational that f32   *)
(* represents exactly, so no rounding is lost.  Sensor axes are in units   *)
(* of 1/2 g.                                                               *)
(***************************************************************************)
EXTENDS Integers, Sequences, FiniteSets, TLC

\* ---------------------------------------------------------------- bounds
MaxZ == 3            \* z axis ranges over 0 .. MaxZ half-g (3 = 1.5 g)
MaxPending == 2      \* cap on the count of timer periods elapsed and not yet waited for

\* ------------------------------------------------------ program constants
MAX_LENGTH == 5
DEC_FIGS == 2
FRAC == 12           \* fixed-point resolution of the model's f32 values: 2^-12
ONE == 2 ^ FRAC      \* 1.0

\* ------------------------------------------------------------ f32 helpers
RECURSIVE Log2(_)
Log2(v) == IF v < 2 THEN 0 ELSE 1 + Log2(v \div 2)

\* f32::to_bits of a non-negative value v (in units of 2^-FRAC): biased
\* exponent and 23-bit mantissa; exact for every v below 2^(24-FRAC)
ToBits(v) ==
    IF v = 0 THEN 0
    ELSE LET k == Log2(v)
         IN  (127 + k - FRAC) * (2 ^ 23) + (v - 2 ^ k) * (2 ^ (23 - k))

\* f32::from_bits, truncated to the model's resolution (values below 2^-FRAC
\* become 0, which is what adding them to -1.0 in f32 yields as well)
FromBits(b) ==
    LET E == b \div (2 ^ 23)
        M == b % (2 ^ 23)
        sh == 150 - FRAC - E
    IN  IF sh > 24 THEN 0
        ELSE IF sh >= 0 THEN (2 ^ 23 + M) \div (2 ^ sh)
        ELSE (2 ^ 23 + M) * (2 ^ (0 - sh))

\* micromath::F32Ext::sqrt, the method `.sqrt()` resolves to in this no_std
\* build: from_bits((to_bits(x) + 0x3f80_0000) >> 1).  0x3f80_0000 is even, so
\* the sum is halved term by term to stay within 32-bit signed integers.
Sqrt(v) == FromBits((ToBits(v) \div 2) + 532676608)

\* micromath::F32Ext::abs
Abs(v) == IF v < 0 THEN 0 - v ELSE v

\* x * x + y * y + z * z for axes in half-g units, as a value
SumSquares(s) == ((s[1] * s[1] + s[2] * s[2] + s[3] * s[3]) * ONE) \div 4

\* line 122
Magnitude(s) == Abs(Sqrt(SumSquares(s)) - ONE)

\* ------------------------------------------------------------- formatting
Digit == <<"0", "1", "2", "3", "4", "5", "6", "7", "8", "9">>

RECURSIVE IntToStr(_)
IntToStr(n) == IF n < 10 THEN Digit[n + 1] ELSE IntToStr(n \div 10) \o Digit[(n % 10) + 1]

RECURSIVE Pow10(_)
Pow10(n) == IF n = 0 THEN 1 ELSE 10 * Pow10(n - 1)

RECURSIVE PadLeft(_, _)
PadLeft(str, width) == IF Len(str) >= width THEN str ELSE PadLeft(" " \o str, width)

RECURSIVE ZeroPad(_, _)
ZeroPad(str, width) == IF Len(str) >= width THEN str ELSE ZeroPad("0" \o str, width)

\* core::fmt of a non-negative f32 with precision dec: the exact value rounded
\* to dec decimals, ties to even
RoundDec(v, dec) ==
    LET q == v * Pow10(dec)
        whole == q \div ONE
        rem == q % ONE
    IN  IF 2 * rem > ONE \/ (2 * rem = ONE /\ whole % 2 = 1) THEN whole + 1 ELSE whole

\* "{:>width$.dec$}"
FmtF32(v, width, dec) ==
    LET w == RoundDec(v, dec)
    IN  PadLeft(IntToStr(w \div Pow10(dec)) \o "." \o ZeroPad(IntToStr(w % Pow10(dec)), dec), width)

\* ------------------------------------------------------------------ state
VARIABLES
    pc,          \* position of main()
    accel,       \* line 120: the sample of this iteration, <<>> outside its scope
    abs_mag,     \* line 122
    peak,        \* line 117
    cur_text,    \* line 131, "" outside its scope
    peak_text,   \* line 138, "" outside its scope
    fb,          \* the display driver's framebuffer (RAM): the set of texts drawn
    screen,      \* what the physical display shows
    shown,       \* history: the last frame a flush delivered completely
    inflight,    \* logical bus handles with a transaction on the physical bus
    countflag,   \* the timer's "period elapsed" flag, cleared when wait() reads it
    pending,     \* history: periods elapsed since wait() last returned (capped)
    log,         \* history: the steps of the current loop iteration, in order
    failed       \* the operation whose unwrap() panicked, "none" so far

vars == <<pc, accel, abs_mag, peak, cur_text, peak_text, fb, screen, shown,
          inflight, countflag, pending, log, failed>>

locals == <<accel, abs_mag, cur_text, peak_text>>
display == <<fb, screen, shown>>
timer == <<countflag, pending>>

\* sensor readings the model feeds, in half-g units
Samples == {<<x, y, z>> : x \in {-1, 0}, y \in {0, 2}, z \in 0 .. MaxZ}

NoSample == <<>>

PowerOn == [kind |-> "poweron", items |-> {}]
Torn == [kind |-> "torn", items |-> {}]
Frame(items) == [kind |-> "frame", items |-> items]

\* Text::new(text, Point::new(x, y))
TextAt(text, x, y) == [x |-> x, y |-> y, text |-> text]

HaltStates == {"halted", "oom"}

FullIteration ==
    <<"sample", "compute", "format", "clear", "draw_cur", "draw_max", "flush", "wait">>

\* ---------------------------------------------------------------- the bus
\* bus.acquire_i2c(): a driver call puts its handle's transaction on the bus
Acquire(h) == inflight \cup {h}

\* the driver call is blocking: it returns when its transaction is over
Release_async(h) == inflight
Release(h) == inflight \ {h}

BusBegin(at, h) ==
    /\ pc' = at \o "_busy"
    /\ inflight' = Acquire(h)
    /\ UNCHANGED <<locals, peak, display, timer, log, failed>>

\* .unwrap() on Err: panic, and panic_halt spins
Panic(op) ==
    /\ pc' = "halted"
    /\ failed' = op

\* ------------------------------------------------------------ bring-up
\* line 104
DispInitBegin ==
    /\ pc = "disp_init"
    /\ BusBegin("disp_init", "disp")

DispInitEnd(ok) ==
    /\ pc = "disp_init_busy"
    /\ inflight' = Release("disp")
    /\ IF ok THEN pc' = "boot_clear" /\ UNCHANGED failed ELSE Panic("disp_init")
    /\ UNCHANGED <<locals, peak, display, timer, log>>

\* line 106 and, in the loop, line 145: clears the framebuffer only
ClearBuffer_through == /\ fb' = {}
                       /\ screen' = Frame({})
                       /\ UNCHANGED shown
ClearBuffer == /\ fb' = {}
               /\ UNCHANGED <<screen, shown>>

BootClear ==
    /\ pc = "boot_clear"
    /\ pc' = "boot_flush"
    /\ ClearBuffer
    /\ UNCHANGED <<locals, peak, inflight, timer, log, failed>>

\* disp.flush(): sends the framebuffer; an error leaves the display as it
\* was or with a mix of the old and the new frame
FlushResult(ok, torn) ==
    IF ok THEN screen' = Frame(fb) /\ shown' = Frame(fb)
    ELSE screen' = (IF torn THEN Torn ELSE screen) /\ UNCHANGED shown

\* line 107
BootFlushBegin ==
    /\ pc = "boot_flush"
    /\ BusBegin("boot_flush", "disp")

BootFlushEnd(ok) ==
    /\ pc = "boot_flush_busy"
    /\ inflight' = Release("disp")
    /\ \E torn \in BOOLEAN : FlushResult(ok, torn)
    /\ IF ok THEN pc' = "accel_new" /\ UNCHANGED failed ELSE Panic("boot_flush")
    /\ UNCHANGED <<locals, peak, fb, timer, log>>

\* line 114
AccelNewBegin ==
    /\ pc = "accel_new"
    /\ BusBegin("accel_new", "accel")

AccelNewEnd(ok) ==
    /\ pc = "accel_new_busy"
    /\ inflight' = Release("accel")
    /\ IF ok THEN pc' = "set_range" /\ UNCHANGED failed ELSE Panic("accel_new")
    /\ UNCHANGED <<locals, peak, display, timer, log>>

\* line 115
SetRangeBegin ==
    /\ pc = "set_range"
    /\ BusBegin("set_range", "accel")

SetRangeEnd(ok) ==
    /\ pc = "set_range_busy"
    /\ inflight' = Release("accel")
    /\ IF ok THEN pc' = "init_peak" /\ UNCHANGED failed ELSE Panic("set_range")
    /\ UNCHANGED <<locals, peak, display, timer, log>>

\* line 117
InitPeak ==
    /\ pc = "init_peak"
    /\ pc' = "read"
    /\ peak' = 0
    /\ UNCHANGED <<locals, display, inflight, timer, log, failed>>

\* ------------------------------------------------------------ the loop
\* line 120
ReadBegin ==
    /\ pc = "read"
    /\ pc' = "read_busy"
    /\ inflight' = Acquire("accel")
    /\ log' = IF log = FullIteration THEN <<"sample">> ELSE Append(log, "sample")
    /\ UNCHANGED <<locals, peak, display, timer, failed>>

\* lines 120-121
ReadEnd(ok) ==
    /\ pc = "read_busy"
    /\ inflight' = Release("accel")
    /\ IF ok
       THEN /\ \E s \in Samples : accel' = s
            /\ pc' = "compute"
            /\ UNCHANGED failed
       ELSE /\ Panic("read")
            /\ UNCHANGED accel
    /\ UNCHANGED <<abs_mag, cur_text, peak_text, peak, display, timer, log>>

\* lines 123-125
UpdatePeak_assign(p, m) == m
UpdatePeak_less(p, m) == IF m < p THEN m ELSE p
UpdatePeak(p, m) == IF m > p THEN m ELSE p

\* lines 122-125
Compute ==
    /\ pc = "compute"
    /\ pc' = "format_cur"
    /\ abs_mag' = Magnitude(accel)
    /\ peak' = UpdatePeak(peak, Magnitude(accel))
    /\ log' = Append(log, "compute")
    /\ UNCHANGED <<accel, cur_text, peak_text, display, inflight, timer, failed>>

\* format! allocates; on exhaustion the alloc_error_handler (lines 178-181) spins
Oom ==
    /\ pc' = "oom"
    /\ failed' = "alloc"

\* lines 131-136
CurText(m) == "Cur: " \o FmtF32(m, MAX_LENGTH, DEC_FIGS)

FormatCur(ok) ==
    /\ pc = "format_cur"
    /\ IF ok
       THEN pc' = "format_peak" /\ cur_text' = CurText(abs_mag) /\ UNCHANGED failed
       ELSE Oom /\ UNCHANGED cur_text
    /\ UNCHANGED <<accel, abs_mag, peak_text, peak, display, inflight, timer, log>>

\* lines 138-143
PeakText(p) == "Max: " \o FmtF32(p, MAX_LENGTH, DEC_FIGS)

FormatPeak(ok) ==
    /\ pc = "format_peak"
    /\ IF ok
       THEN /\ pc' = "clear"
            /\ peak_text' = PeakText(peak)
            /\ log' = Append(log, "format")
            /\ UNCHANGED failed
       ELSE Oom /\ UNCHANGED <<peak_text, log>>
    /\ UNCHANGED <<accel, abs_mag, cur_text, peak, display, inflight, timer>>

\* line 145
Clear ==
    /\ pc = "clear"
    /\ pc' = "draw_cur"
    /\ ClearBuffer
    /\ log' = Append(log, "clear")
    /\ UNCHANGED <<locals, peak, inflight, timer, failed>>

\* lines 162-165
DrawCur(ok) ==
    /\ pc = "draw_cur"
    /\ IF ok
       THEN /\ pc' = "draw_max"
            /\ fb' = fb \cup {TextAt(cur_text, 0, 0)}
            /\ log' = Append(log, "draw_cur")
            /\ UNCHANGED failed
       ELSE Panic("draw_cur") /\ UNCHANGED <<fb, log>>
    /\ UNCHANGED <<locals, peak, screen, shown, inflight, timer>>

\* lines 167-170
PeakPoint_origin == <<0, 0>>
PeakPoint == <<0, 23>>

DrawPeak(ok) ==
    /\ pc = "draw_max"
    /\ IF ok
       THEN /\ pc' = "flush"
            /\ fb' = fb \cup {TextAt(peak_text, PeakPoint[1], PeakPoint[2])}
            /\ log' = Append(log, "draw_max")
            /\ UNCHANGED failed
       ELSE Panic("draw_max") /\ UNCHANGED <<fb, log>>
    /\ UNCHANGED <<locals, peak, screen, shown, inflight, timer>>

\* line 172
FlushBegin ==
    /\ pc = "flush"
    /\ BusBegin("flush", "disp")

\* line 174 follows line 172
AfterFlush_nowait == "read"
AfterFlush == "wait"

FlushEnd(ok) ==
    /\ pc = "flush_busy"
    /\ inflight' = Release("disp")
    /\ \E torn \in BOOLEAN : FlushResult(ok, torn)
    /\ IF ok
       THEN pc' = AfterFlush /\ log' = Append(log, "flush") /\ UNCHANGED failed
       ELSE Panic("flush") /\ UNCHANGED log
    /\ UNCHANGED <<locals, peak, fb, timer>>

\* line 174: block!(timer.wait()) polls until the flag is set; reading the
\* flag clears it.  The loop body's locals go out of scope at line 175.
\* line 175: the loop has no exit
AfterWait_exit == "exit"
AfterWait == "read"

\* timer.wait() is Ok when the flag is set, WouldBlock otherwise
TimerWaitReady == countflag

\* reading the flag clears it, however many periods have elapsed
FlagAfterWait_catchup == pending > 1
FlagAfterWait == FALSE

WaitTick(ok) ==
    /\ pc = "wait"
    /\ IF ok
       THEN /\ TimerWaitReady
            /\ countflag' = FlagAfterWait
            /\ pending' = 0
            /\ pc' = AfterWait
            /\ accel' = NoSample
            /\ abs_mag' = 0
            /\ cur_text' = ""
            /\ peak_text' = ""
            /\ log' = Append(log, "wait")
            /\ UNCHANGED failed
       ELSE /\ Panic("wait")
            /\ UNCHANGED <<locals, timer, log>>
    /\ UNCHANGED <<peak, display, inflight>>

\* line 71: the hardware timer reaches the end of a period
TimerElapse ==
    /\ countflag' = TRUE
    /\ pending' = IF pending < MaxPending THEN pending + 1 ELSE pending
    /\ UNCHANGED <<pc, locals, peak, display, inflight, log, failed>>

\* panic_halt (line 14) and oom (lines 178-181): loop {}
HaltNext_reset == "disp_init"
HaltNext == pc

Halt ==
    /\ pc \in HaltStates
    /\ pc' = HaltNext
    /\ UNCHANGED <<locals, peak, display, inflight, timer, log, failed>>

\* ------------------------------------------------------- specifications
Init ==
    /\ pc = "disp_init"
    /\ accel = NoSample
    /\ abs_mag = 0
    /\ peak = 0
    /\ cur_text = ""
    /\ peak_text = ""
    /\ fb = {}
    /\ screen = PowerOn
    /\ shown = PowerOn
    /\ inflight = {}
    /\ countflag = FALSE
    /\ pending = 0
    /\ log = <<>>
    /\ failed = "none"

Step(ok) ==
    \/ DispInitBegin
    \/ DispInitEnd(ok)
    \/ BootClear
    \/ BootFlushBegin
    \/ BootFlushEnd(ok)
    \/ AccelNewBegin
    \/ AccelNewEnd(ok)
    \/ SetRangeBegin
    \/ SetRangeEnd(ok)
    \/ InitPeak
    \/ ReadBegin
    \/ ReadEnd(ok)
    \/ Compute
    \/ FormatCur(ok)
    \/ FormatPeak(ok)
    \/ Clear
    \/ DrawCur(ok)
    \/ DrawPeak(ok)
    \/ FlushBegin
    \/ FlushEnd(ok)
    \/ WaitTick(ok)

Next ==
    \/ \E ok \in BOOLEAN : Step(ok)
    \/ TimerElapse
    \/ Halt

Spec == Init /\ [][Next]_vars

\* no operation ever fails, the processor keeps executing and the timer keeps
\* running
NextOk ==
    \/ Step(TRUE)
    \/ TimerElapse

LiveSpec == Init /\ [][NextOk]_vars /\ WF_vars(Step(TRUE)) /\ WF_vars(TimerElapse)

\* ------------------------------------------------------------ properties
IsPrefix(s, full) == Len(s) <= Len(full) /\ s = SubSeq(full, 1, Len(s))

HasLabel(text, label) == Len(text) >= Len(label) /\ SubSeq(text, 1, Len(label)) = label

\* positions of the loop body after the peak update of lines 123-125
AfterUpdate ==
    {"format_cur", "format_peak", "clear", "draw_cur", "draw_max",
     "flush", "flush_busy", "wait"}

\* C1: the peak starts at 0.0 and no step of the program lowers or resets it:
\* across every step, peak' >= peak.
C1_PeakNonDecreasing ==
    [][/\ peak' >= peak
       /\ (pc = "init_peak" => peak' = 0)]_vars

\* C1 witness: a sample smaller than the running peak has been folded in, and
\* the peak is still the larger, earlier value.
C1_Witness == pc = "format_cur" /\ peak > abs_mag /\ abs_mag > 0

\* C2: from the peak update to the end of the iteration (the formatting of the
\* two lines included) the peak is at least the magnitude of this iteration.
C2_PeakCoversMagnitude == pc \in AfterUpdate => peak >= abs_mag

\* C2 witness: the two lines are being formatted with a magnitude that raised
\* the peak to its own value.
C2_Witness == pc = "format_peak" /\ peak = abs_mag /\ abs_mag > ONE \div 2

\* C3: at most one transaction is on the physical bus at any time, and it
\* belongs to the handle of the driver call that is executing.
C3_OneTransaction ==
    /\ Cardinality(inflight) <= 1
    /\ inflight = {"disp"} => pc \in {"disp_init_busy", "boot_flush_busy", "flush_busy"}
    /\ inflight = {"accel"} => pc \in {"accel_new_busy", "set_range_busy", "read_busy"}

\* C3 witness: the accelerometer's handle has a transaction in flight after the
\* display's handle has delivered a frame of the loop over the same bus.
C3_Witness == inflight = {"accel"} /\ pc = "read_busy" /\ shown.items # {}

\* C4: a failure leads to a halt state at once, and in a halt state nothing of
\* the program changes again: no retry, read, peak update, draw, flush or wait.
C4_FailFast ==
    [][/\ failed' # failed => pc' \in HaltStates
       /\ pc \in HaltStates =>
              /\ pc' = pc
              /\ UNCHANGED <<locals, peak, display, inflight, log, failed>>]_vars

\* C4 witness: a sample read of a later iteration has failed, and timer periods
\* have elapsed since with the process still halted at that point.
C4_Witness ==
    /\ pc = "halted"
    /\ failed = "read"
    /\ shown.items # {}
    /\ pending >= 2

\* C5: the steps of an iteration happen in the order sample, compute (and
\* format), clear, draw, draw, flush, wait, each once, and a sample read starts
\* an iteration only after the previous iteration's wait has returned.
C5_IterationOrder == IsPrefix(log, FullIteration)

\* C5 witness: a second iteration's sample read is under way after a complete
\* first iteration.
C5_Witness == pc = "compute" /\ log = <<"sample">> /\ shown.items # {}

\* C6: a flush of the loop that succeeds follows clear, the draw of the "Cur: "
\* line at (0,0) and the draw of the "Max: " line at (0,23), in this order, and
\* delivers a frame holding exactly these two lines.
C6_RenderOrder ==
    [][(pc = "flush_busy" /\ pc' # pc /\ pc' \notin HaltStates) =>
           /\ SubSeq(log', Len(log') - 3, Len(log')) = <<"clear", "draw_cur", "draw_max", "flush">>
           /\ screen'.kind = "frame"
           /\ Cardinality(screen'.items) = 2
           /\ \E c \in screen'.items : c.x = 0 /\ c.y = 0 /\ HasLabel(c.text, "Cur: ")
           /\ \E m \in screen'.items : m.x = 0 /\ m.y = 23 /\ HasLabel(m.text, "Max: ")]_vars

\* C6 witness: a frame with both lines is on the display and the loop is at the
\* tick wait.
C6_Witness ==
    /\ pc = "wait"
    /\ screen = Frame({TextAt(cur_text, 0, 0), TextAt(peak_text, 0, 23)})
    /\ cur_text # ""

\* C7: the tick wait returns only when a period has elapsed since it last
\* returned, and one return uses up all the periods elapsed meanwhile: the next
\* wait needs a new period.
C7_NoCatchUp ==
    [][(pc = "wait" /\ pc' # pc /\ pc' \notin HaltStates) =>
           /\ countflag
           /\ pending >= 1
           /\ ~countflag'
           /\ pending' = 0]_vars

\* C7 witness: the loop body has overrun: it reaches the wait with two or more
\* periods elapsed.
C7_Witness == pc = "wait" /\ pending >= 2 /\ countflag

\* C8 (as claimed): the reading (0, 0, 1.5 g) gives magnitude 0.5 and the frame
\* "Cur:  0.50" and, from a smaller prior peak, "Max:  0.50".
C8_Example ==
    (pc = "wait" /\ accel = <<0, 0, 3>>) =>
        /\ abs_mag = ONE \div 2
        /\ TextAt("Cur:  0.50", 0, 0) \in screen.items
        /\ peak <= abs_mag => TextAt("Max:  0.50", 0, 23) \in screen.items

\* C9: once halted the display never changes; it shows the last frame that was
\* delivered completely, or a partial frame when the flush itself failed; and
\* every text on it is a "Cur: " or a "Max: " line.
C9_FrozenDisplay ==
    [][/\ pc \in HaltStates => screen' = screen
       /\ pc' \in HaltStates =>
              /\ \/ screen' = shown'
                 \/ failed' \in {"flush", "boot_flush"} /\ screen' = Torn
              /\ failed' = "read" => screen' = shown' /\ Cardinality(screen'.items) \in {0, 2}
              /\ \A i \in screen'.items : HasLabel(i.text, "Cur: ") \/ HasLabel(i.text, "Max: ")]_vars

\* C9 witness: a sample read failed after a complete frame; the framebuffer
\* and the display still hold that frame.
C9_Witness ==
    /\ pc = "halted"
    /\ failed = "read"
    /\ Cardinality(screen.items) = 2
    /\ countflag

\* C10: when nothing fails and the timer runs, every sample read is followed
\* by the flush of the frame computed from it and by the return of the wait,
\* and frames are flushed again and again.
C10_Progress ==
    /\ (pc = "compute") ~>
           (pc = "wait" /\ TextAt(CurText(Magnitude(accel)), 0, 0) \in screen.items)
    /\ (pc = "wait") ~> (pc = "read")
    /\ []<>(pc = "flush_busy")

\* C10 witness: a later iteration (its sample is below the running peak) has
\* flushed its frame and waits for a tick that has already elapsed.
C10_Witness ==
    /\ pc = "wait"
    /\ log = SubSeq(FullIteration, 1, 7)
    /\ peak > abs_mag
    /\ countflag
====
